---- MODULE Spec2Model ----
(***************************************************************************)
(* Single-room chat server: the Room aggregate, the in-memory repository   *)
(* (room + connected_clients, each behind its own tokio Mutex), the three  *)
(* use cases (connect, disconnect, send) and the WebSocket handler that    *)
(* drives them, one handler per connection.                                *)
(*                                                                         *)
(* Every step between two lock acquisitions of the source is one action.   *)
(* The room Mutex is never held across an await, so a room critical        *)
(* section is one atomic action.  The connected_clients Mutex is held      *)
(* across an await only inside remove_participant (it then waits for the   *)
(* room Mutex), so that method is two actions with clients_lock between.   *)
(*                                                                         *)
(* Timestamps (connected_at, the message timestamp, created_at) and the    *)
(* room id are stored and copied but never read by a decision, and are     *)
(* left out of the records.  A Vec of ids collected from the HashMap keys  *)
(* has no defined order and is a set here.  recv_task.abort() only         *)
(* requests cancellation: the task may go on until RecvCancelled.          *)
(*                                                                         *)
(* Spec is the server with its concurrent handlers.  SeqSpec calls the use *)
(* cases and the value-object constructors one at a time on a room of up   *)
(* to three participants; it is where the order of the participants, the   *)
(* sorted participant list and the length limits are checked.  RaceSpec is *)
(* the connects and disconnects of three connections with three ids on a   *)
(* room of two, without text frames.  TellSpec and JoinSpec are connects   *)
(* and disconnects of three connections (two ids; one id each) with the    *)
(* record of the last membership event each client was told.  ChatSpec is  *)
(* connects and text frames of three connections with the log of the chat  *)
(* events each queue was handed.  LockSpec follows the lock acquisitions   *)
(* of the repository methods one by one, with both mutexes explicit, and   *)
(* LockFairSpec adds the fairness of tokio's Mutex.                        *)
(*                                                                         *)
(* The outbound queues are not kept: outbound holds what the step just     *)
(* taken handed to each connection (pushed onto its queue, or written to   *)
(* its socket for room-connected), and every other step clears it.  told   *)
(* keeps what a specification needs of the past of the queues.             *)
(***************************************************************************)
EXTENDS Integers, Sequences, FiniteSets, TLC

\* ------------------------------------------------------------------ bounds

\* Number of connection slots (WebSocket requests in flight at once).  A slot
\* whose handler has returned is reused by a later request.
MaxConn == 2

\* Room::with_capacity takes both capacities as parameters; the room is
\* constructed with capacities in 1..MaxParticipantCapacity and
\* 1..MaxMessageCapacity.
MaxParticipantCapacity == 2
MaxMessageCapacity == 2

\* ------------------------------------------------------------- constants

\* ClientId::new rejects ids longer than this.
ClientIdMaxLen == 100

\* MessageContent::new rejects contents longer than this.
MessageContentMaxLen == 10000

Conns == 1..MaxConn

\* Ids a request can carry in its query string: valid ones and the empty one.
ValidIds == {"alice", "bob"}
IdInputs == ValidIds \cup {""}

\* Contents a text frame can carry.
ContentInputs == {"m1", ""}

NoId == "-"
NoLock == 0
NoError == [tag |-> "None"]
NoResult == [tag |-> "None"]
NoEvent == [type |-> "none"]

VARIABLES
    room,               \* Arc<Mutex<Room>>: participants, messages, capacities
    connected_clients,  \* Arc<Mutex<HashMap<String, ClientInfo>>>
    clients_lock,       \* holder of the connected_clients Mutex across an await
    pc,                 \* position of each connection's handler
    client_id,          \* the handler's client_id
    result,             \* result of ConnectParticipantUseCase::execute
    room_err,           \* the RoomError that Room::add_participant returned to the repository
    status,             \* HTTP status websocket_handler answered with
    notify_targets,     \* notify_targets local of DisconnectParticipantUseCase::execute
    disconnect_result,  \* Ok / Err of DisconnectParticipantUseCase::execute (Ok carries
                        \* notify_targets; Err carries nothing, cause is what it was mapped from)
    recv_pc,            \* position of the connection's recv_task
    aborted,            \* recv_task.abort() was called
    send_from,          \* client_id_str local of SendMessageUseCase::execute
    broadcast_targets,  \* broadcast_targets local of SendMessageUseCase::execute
    participant_list,   \* the Vec the last build_participant_list call returned
    vo,                 \* the last value-object construction: kind, input length, result
    send_result,        \* what recv_task logged for the last text frame, if it was not sent:
                        \* InvalidClientId, InvalidContent or MessageCapacityExceeded
    response_json,      \* response_json local of recv_task: the chat event of the frame in hand
    outbound,           \* what the step just taken handed to each connection: the event
                        \* pushed onto its queue (ClientInfo.sender.send) or written to its
                        \* socket (room-connected); the queues' contents are not kept
    told,               \* per connection and id, the last its client is told of the id:
                        \* listed in room-connected, participant-joined, participant-left
                        \* (TellSpec, JoinSpec); or the chat events its queue was handed
                        \* (ChatSpec); not kept elsewhere
    room_lock,          \* holder of the room Mutex; no handler step ends with it held
    calls               \* LockSpec: the repository method each task is in and its position

vars == <<room, connected_clients, clients_lock, pc, client_id,
          result, room_err, status, notify_targets, disconnect_result, recv_pc,
          aborted, send_from, broadcast_targets, send_result,
          participant_list, vo, response_json, outbound, told,
          room_lock, calls>>

connVars == <<pc, client_id, result, room_err, status, notify_targets,
              disconnect_result>>
recvVars == <<recv_pc, aborted, send_from, broadcast_targets, send_result, response_json>>
callVars == <<participant_list, vo>>
lockVars == <<room_lock, calls>>

\* calls in the specifications of the handlers, where a method is one or two steps
NoCalls == << >>

\* no connection is handed an event
NoOutbound == [c \in DOMAIN pc |-> NoEvent]

\* the ids a connection can be told of
AllIds == {"alice", "bob", "charlie", "dave"}

\* told in the specifications that keep no record of it
ToldNotKept == << >>

\* a connection whose client has been told nothing
ToldNothing == [id \in AllIds |-> "none"]

\* a connection whose queue has been handed no chat event
NoChat == [chat |-> << >>]

\* The chat events that the queue of each connection has been handed, in the order of
\* the sends on its UnboundedSender (a specification that starts told with NoChat).
chat_log_after(t, out) ==
    [c \in DOMAIN t |->
        IF out[c].type = "chat" THEN [chat |-> Append(t[c].chat, out[c])] ELSE t[c]]

\* What the client of each connection has last been told of each id, in the order of
\* its socket: room-connected is written to the socket before send_task starts to
\* drain the queue, so an event that was queued earlier still comes after the list.
\* Nothing is kept for a connection that has not connected or whose handler has left
\* the select (its send_task is aborted, nothing more is written to its socket), and
\* nothing at all in a specification that starts with ToldNotKept.
told_after(t, out, p) ==
    IF t = ToldNotKept THEN t ELSE
    IF "chat" \in DOMAIN t[1] THEN chat_log_after(t, out) ELSE
    [c \in DOMAIN p |->
        IF p[c] \notin {"add_participant_room", "add_participant_clients", "handle_socket",
                         "get_connected_at", "broadcast_joined", "running"}
        THEN ToldNothing
        ELSE IF out[c].type = "participant-joined"
        THEN [t[c] EXCEPT ![out[c].client_id] = "joined"]
        ELSE IF out[c].type = "participant-left"
        THEN [t[c] EXCEPT ![out[c].client_id] = "left"]
        ELSE IF out[c].type = "room-connected"
        THEN [id \in AllIds |->
                 IF /\ t[c][id] = "none"
                    /\ \E i \in 1..Len(out[c].participants) :
                           out[c].participants[i].client_id = id
                 THEN "listed" ELSE t[c][id]]
        ELSE t[c]]

\* ------------------------------------------------------------ value objects

\* ClientId::new with the length test off by one (>= for >)
ClientId_new_OffByOne(id) ==
    IF Len(id) = 0 THEN [ok |-> FALSE, err |-> [tag |-> "ClientIdEmpty"]]
    ELSE IF Len(id) >= ClientIdMaxLen
         THEN [ok |-> FALSE,
               err |-> [tag |-> "ClientIdTooLong", max |-> ClientIdMaxLen, actual |-> Len(id)]]
         ELSE [ok |-> TRUE, err |-> NoError]

\* ClientId::new
ClientId_new(id) ==
    IF Len(id) = 0 THEN [ok |-> FALSE, err |-> [tag |-> "ClientIdEmpty"]]
    ELSE IF Len(id) > ClientIdMaxLen
         THEN [ok |-> FALSE,
               err |-> [tag |-> "ClientIdTooLong", max |-> ClientIdMaxLen, actual |-> Len(id)]]
         ELSE [ok |-> TRUE, err |-> NoError]

\* MessageContent::new accepting the empty string
MessageContent_new_AcceptEmpty(content) ==
    IF Len(content) > MessageContentMaxLen
    THEN [ok |-> FALSE,
          err |-> [tag |-> "MessageContentTooLong", max |-> MessageContentMaxLen,
                   actual |-> Len(content)]]
    ELSE [ok |-> TRUE, err |-> NoError]

\* MessageContent::new
MessageContent_new(content) ==
    IF Len(content) = 0 THEN [ok |-> FALSE, err |-> [tag |-> "MessageContentEmpty"]]
    ELSE IF Len(content) > MessageContentMaxLen
         THEN [ok |-> FALSE,
               err |-> [tag |-> "MessageContentTooLong", max |-> MessageContentMaxLen,
                        actual |-> Len(content)]]
         ELSE [ok |-> TRUE, err |-> NoError]

\* ------------------------------------------------------------ Room aggregate

\* Participant::new
Participant_new(id) == [id |-> id]

\* ChatMessage::new
ChatMessage_new(from, content) == [from |-> from, content |-> content]

\* Room::with_capacity
Room_with_capacity(pcap, mcap) ==
    [participants |-> << >>, messages |-> << >>,
     participant_capacity |-> pcap, message_capacity |-> mcap]

\* Room::add_participant with the ceiling test off by one (> for >=)
Room_add_participant_NoCeiling(r, p) ==
    IF Len(r.participants) > r.participant_capacity
    THEN [ok |-> FALSE, room |-> r,
          err |-> [tag |-> "CapacityExceeded", capacity |-> r.participant_capacity,
                   current |-> Len(r.participants)]]
    ELSE [ok |-> TRUE, room |-> [r EXCEPT !.participants = Append(@, p)], err |-> NoError]

\* Room::add_participant filling the error's fields from the wrong values
Room_add_participant_SwappedFields(r, p) ==
    IF Len(r.participants) >= r.participant_capacity
    THEN [ok |-> FALSE, room |-> r,
          err |-> [tag |-> "CapacityExceeded", capacity |-> Len(r.participants) + 1,
                   current |-> r.participant_capacity]]
    ELSE [ok |-> TRUE, room |-> [r EXCEPT !.participants = Append(@, p)], err |-> NoError]

\* Room::add_participant pushing before it tests the ceiling
Room_add_participant_PushFirst(r, p) ==
    IF Len(r.participants) >= r.participant_capacity
    THEN [ok |-> FALSE, room |-> [r EXCEPT !.participants = Append(@, p)],
          err |-> [tag |-> "CapacityExceeded", capacity |-> r.participant_capacity,
                   current |-> Len(r.participants)]]
    ELSE [ok |-> TRUE, room |-> [r EXCEPT !.participants = Append(@, p)], err |-> NoError]

\* Room::add_participant
Room_add_participant(r, p) ==
    IF Len(r.participants) >= r.participant_capacity
    THEN [ok |-> FALSE, room |-> r,
          err |-> [tag |-> "CapacityExceeded", capacity |-> r.participant_capacity,
                   current |-> Len(r.participants)]]
    ELSE [ok |-> TRUE, room |-> [r EXCEPT !.participants = Append(@, p)], err |-> NoError]

\* Room::remove_participant done with Vec::swap_remove: the last participant takes the
\* place of the removed one
Room_remove_participant_SwapRemove(r, id) ==
    LET ps == r.participants
        hit == {i \in 1..Len(ps) : ps[i].id = id}
    IN IF hit = {} THEN r
       ELSE LET k == CHOOSE i \in hit : \A j \in hit : i <= j
            IN [r EXCEPT !.participants =
                   [i \in 1..(Len(ps) - 1) |-> IF i = k THEN ps[Len(ps)] ELSE ps[i]]]

\* Room::remove_participant dropping the last entry when the id is not in the room
Room_remove_participant_PopWhenAbsent(r, id) ==
    IF \E i \in 1..Len(r.participants) : r.participants[i].id = id
    THEN [r EXCEPT !.participants = SelectSeq(@, LAMBDA p : p.id # id)]
    ELSE [r EXCEPT !.participants = SubSeq(@, 1, Len(@) - 1)]

\* Room::remove_participant
Room_remove_participant(r, id) ==
    [r EXCEPT !.participants = SelectSeq(@, LAMBDA p : p.id # id)]

\* Room::add_message with the ceiling test off by one (> for >=)
Room_add_message_NoCeiling(r, m) ==
    IF Len(r.messages) > r.message_capacity
    THEN [ok |-> FALSE, room |-> r,
          err |-> [tag |-> "MessageCapacityExceeded", capacity |-> r.message_capacity,
                   current |-> Len(r.messages)]]
    ELSE [ok |-> TRUE, room |-> [r EXCEPT !.messages = Append(@, m)], err |-> NoError]

\* Room::add_message evicting the oldest message when the history is full
Room_add_message_Evicting(r, m) ==
    IF Len(r.messages) >= r.message_capacity
    THEN [ok |-> FALSE, room |-> [r EXCEPT !.messages = Append(Tail(@), m)],
          err |-> [tag |-> "MessageCapacityExceeded", capacity |-> r.message_capacity,
                   current |-> Len(r.messages)]]
    ELSE [ok |-> TRUE, room |-> [r EXCEPT !.messages = Append(@, m)], err |-> NoError]

\* Room::add_message inserting at the front of the history
Room_add_message_Prepend(r, m) ==
    IF Len(r.messages) >= r.message_capacity
    THEN [ok |-> FALSE, room |-> r,
          err |-> [tag |-> "MessageCapacityExceeded", capacity |-> r.message_capacity,
                   current |-> Len(r.messages)]]
    ELSE [ok |-> TRUE, room |-> [r EXCEPT !.messages = <<m>> \o @], err |-> NoError]

\* Room::add_message answering Ok without storing when the history is full
Room_add_message_OkWhenFull(r, m) ==
    IF Len(r.messages) >= r.message_capacity
    THEN [ok |-> TRUE, room |-> r, err |-> NoError]
    ELSE [ok |-> TRUE, room |-> [r EXCEPT !.messages = Append(@, m)], err |-> NoError]

\* Room::add_message
Room_add_message(r, m) ==
    IF Len(r.messages) >= r.message_capacity
    THEN [ok |-> FALSE, room |-> r,
          err |-> [tag |-> "MessageCapacityExceeded", capacity |-> r.message_capacity,
                   current |-> Len(r.messages)]]
    ELSE [ok |-> TRUE, room |-> [r EXCEPT !.messages = Append(@, m)], err |-> NoError]

\* ------------------------------------------------------------ repository

\* InMemoryRoomRepository::get_all_connected_client_ids
get_all_connected_client_ids == DOMAIN connected_clients

\* ids of room.participants (InMemoryRoomRepository::get_participants)
ParticipantIds == {room.participants[i].id : i \in 1..Len(room.participants)}

\* ClientInfo: the sender end of connection c's channel
ClientInfo(c) == [sender |-> c]

\* clients.insert(client_id, ClientInfo { .. })
clients_insert(clients, id, info) ==
    [k \in (DOMAIN clients) \cup {id} |-> IF k = id THEN info ELSE clients[k]]

\* clients.remove(client_id)
clients_remove(clients, id) == [k \in (DOMAIN clients) \ {id} |-> clients[k]]

\* clients.remove(client_id) always returning Some
clients_remove_is_some_Always(clients, id) == TRUE

\* clients.remove(client_id) returns Some iff the key was present; None becomes
\* Err(ClientInfoNotFound) through ok_or_else(..)?
clients_remove_is_some(clients, id) == id \in DOMAIN clients

\* ------------------------------------------------------------ use cases

\* the duplicate check never finding the id
IsDuplicate_Never(client_ids, id) == FALSE

\* ConnectParticipantUseCase::execute, step 1: client_ids.iter().any(|id| id == client_id)
IsDuplicate(client_ids, id) == id \in client_ids

\* .map_err(|_| ConnectError::RoomCapacityExceeded) over
\* .map_err(|_| RepositoryError::ParticipantNotFound(client_id))
ConnectError_of(roomError) == [tag |-> "RoomCapacityExceeded"]

\* RepositoryError::ClientInfoNotFound(client_id)
ClientInfoNotFound(id) == [tag |-> "ClientInfoNotFound", id |-> id]

\* DisconnectParticipantUseCase::execute: .map_err(|_| ()); cause is the RepositoryError
\* that the mapping discards
DisconnectError_of(repositoryError) == [tag |-> "Err", cause |-> repositoryError]

\* the filter of the target lists keeping every id
targets_excluding_Nothing(client_ids, exclude_client_id) == client_ids

\* DisconnectParticipantUseCase::get_notify_targets / SendMessageUseCase::get_broadcast_targets
targets_excluding(client_ids, exclude_client_id) == client_ids \ {exclude_client_id}

\* websocket_handler: the status each outcome of the connect is answered with
StatusOf(r) ==
    CASE r.tag = "Ok" -> "SWITCHING_PROTOCOLS"
      [] r.tag = "DuplicateClientId" -> "CONFLICT"
      [] r.tag = "RoomCapacityExceeded" -> "SERVICE_UNAVAILABLE"
      [] OTHER -> "BAD_REQUEST"

\* String::cmp on the ids of the model (byte-wise lexicographic): the position of each
\* id in ascending order
ClientIdRank == [alice |-> 1, bob |-> 2, charlie |-> 3]

\* a.client_id.cmp(&b.client_id) == Ordering::Less
cmp_less(a, b) == ClientIdRank[a] < ClientIdRank[b]

\* ParticipantInfo { client_id, connected_at }
ParticipantInfo(p) == [client_id |-> p.id]

\* one step of the stable sort: x goes behind every element that is not greater than it
InsertSorted(sorted, x) ==
    LET k == Cardinality({i \in 1..Len(sorted) : ~cmp_less(x.client_id, sorted[i].client_id)})
    IN SubSeq(sorted, 1, k) \o <<x>> \o SubSeq(sorted, k + 1, Len(sorted))

\* participant_info_list.sort_by(|a, b| a.client_id.cmp(&b.client_id))
RECURSIVE sort_by_client_id(_)
sort_by_client_id(list) ==
    IF list = << >> THEN << >>
    ELSE InsertSorted(sort_by_client_id(SubSeq(list, 1, Len(list) - 1)), list[Len(list)])

\* build_participant_list without the sort
build_participant_list_Unsorted(participants) ==
    [i \in 1..Len(participants) |-> ParticipantInfo(participants[i])]

\* ConnectParticipantUseCase::build_participant_list
build_participant_list(participants) ==
    sort_by_client_id([i \in 1..Len(participants) |-> ParticipantInfo(participants[i])])

\* ------------------------------------------------------------ events

\* RoomConnectedMessage { type: room-connected, participants }
RoomConnectedMessage(participants) ==
    [type |-> "room-connected", participants |-> participants]

\* ParticipantJoinedMessage { type: participant-joined, client_id, connected_at }
ParticipantJoinedMessage(id) == [type |-> "participant-joined", client_id |-> id]

\* ParticipantLeftMessage { type: participant-left, client_id, disconnected_at }
ParticipantLeftMessage(id) == [type |-> "participant-left", client_id |-> id]

\* the response of recv_task: ChatMessage { type: chat, client_id, content, timestamp }
\* with client_id and content taken from the frame
ChatMessageDto(from, content) == [type |-> "chat", client_id |-> from, content |-> content]


\* the fan-out loop with every send failing: no queue is handed the event
send_to_targets_Dropped(clients, targets, json) == [c \in DOMAIN pc |-> NoEvent]

\* for target_id in targets { if let Some(client_info) = clients.get(&target_id)
\* { client_info.sender.send(json) } }: the event each connection's queue is handed
send_to_targets(clients, targets, json) ==
    [c \in DOMAIN pc |->
        IF \E t \in targets \cap DOMAIN clients : clients[t].sender = c
        THEN json ELSE NoEvent]

\* recv_task: what the client is sent when SendMessageUseCase::execute returns Err: the
\* match arm only calls tracing::warn!
SendErrorStatus(sendError) == "None"

\* handle_socket: what the client is sent when DisconnectParticipantUseCase::execute
\* returns Err: the match arm only calls tracing::warn!
DisconnectErrorStatus(disconnectError) == "None"

\* ------------------------------------------------------------ initial state

Init ==
    /\ \E pcap \in 1..MaxParticipantCapacity, mcap \in 1..MaxMessageCapacity :
           room = Room_with_capacity(pcap, mcap)
    /\ connected_clients = << >>
    /\ clients_lock = NoLock
    /\ pc = [c \in Conns |-> "idle"]
    /\ client_id = [c \in Conns |-> NoId]
    /\ result = [c \in Conns |-> NoResult]
    /\ room_err = [c \in Conns |-> NoError]
    /\ status = [c \in Conns |-> "None"]
    /\ notify_targets = [c \in Conns |-> {}]
    /\ disconnect_result = [c \in Conns |-> NoResult]
    /\ recv_pc = [c \in Conns |-> "none"]
    /\ aborted = [c \in Conns |-> FALSE]
    /\ send_from = [c \in Conns |-> NoId]
    /\ broadcast_targets = [c \in Conns |-> {}]
    /\ send_result = [c \in Conns |-> NoResult]
    /\ participant_list = << >>
    /\ vo = NoResult
    /\ response_json = [c \in Conns |-> NoEvent]
    /\ outbound = NoOutbound
    /\ told = ToldNotKept
    /\ room_lock = NoLock
    /\ calls = NoCalls

\* The handler of slot c has returned (or has not started), its recv_task is gone and
\* no handle of its channel is left in the registry: the slot can stand for a new
\* connection with a new channel.
Free(c) ==
    /\ pc[c] \in {"idle", "rejected", "returned", "panicked", "done"}
    /\ recv_pc[c] \in {"none", "ended"}
    /\ \A id \in DOMAIN connected_clients : connected_clients[id] # ClientInfo(c)

\* ------------------------------------------------------------ connect

\* websocket_handler up to the first lock of ConnectParticipantUseCase::execute:
\* validates the id, then takes the connected_clients lock for the duplicate check.
WebsocketHandler(c, id) ==
    /\ Free(c)
    /\ client_id' = [client_id EXCEPT ![c] = id]
    /\ IF ~ClientId_new(id).ok
       THEN /\ pc' = [pc EXCEPT ![c] = "rejected"]
            /\ result' = [result EXCEPT ![c] = NoResult]
            /\ status' = [status EXCEPT ![c] = StatusOf(NoResult)]
       ELSE /\ clients_lock = NoLock
            /\ IF IsDuplicate(get_all_connected_client_ids, id)
               THEN /\ pc' = [pc EXCEPT ![c] = "rejected"]
                    /\ result' = [result EXCEPT ![c] = [tag |-> "DuplicateClientId", id |-> id]]
                    /\ status' = [status EXCEPT ![c] = StatusOf([tag |-> "DuplicateClientId"])]
               ELSE /\ pc' = [pc EXCEPT ![c] = "add_participant_room"]
                    /\ result' = [result EXCEPT ![c] = NoResult]
                    /\ status' = [status EXCEPT ![c] = "None"]
    /\ room_err' = [room_err EXCEPT ![c] = NoError]
    /\ notify_targets' = [notify_targets EXCEPT ![c] = {}]
    /\ disconnect_result' = [disconnect_result EXCEPT ![c] = NoResult]
    /\ recv_pc' = [recv_pc EXCEPT ![c] = "none"]
    /\ aborted' = [aborted EXCEPT ![c] = FALSE]
    /\ send_from' = [send_from EXCEPT ![c] = NoId]
    /\ broadcast_targets' = [broadcast_targets EXCEPT ![c] = {}]
    /\ send_result' = [send_result EXCEPT ![c] = NoResult]
    /\ response_json' = [response_json EXCEPT ![c] = NoEvent]
    /\ UNCHANGED <<room, connected_clients, clients_lock>>
    /\ UNCHANGED callVars
    /\ outbound' = NoOutbound
    /\ told' = told_after(told, outbound', pc')
    /\ UNCHANGED lockVars

\* InMemoryRoomRepository::add_participant, first block: room.lock(), Room::add_participant.
\* On Err the repository and the use case map the error and websocket_handler answers.
AddParticipantRoom(c) ==
    /\ pc[c] = "add_participant_room"
    /\ LET r == Room_add_participant(room, Participant_new(client_id[c])) IN
       /\ room' = r.room
       /\ IF r.ok
          THEN /\ pc' = [pc EXCEPT ![c] = "add_participant_clients"]
               /\ UNCHANGED <<result, room_err, status>>
          ELSE /\ pc' = [pc EXCEPT ![c] = "rejected"]
               /\ room_err' = [room_err EXCEPT ![c] = r.err]
               /\ result' = [result EXCEPT ![c] = ConnectError_of(r.err)]
               /\ status' = [status EXCEPT ![c] = StatusOf(ConnectError_of(r.err))]
    /\ UNCHANGED <<connected_clients, clients_lock, client_id,
                   notify_targets, disconnect_result, recvVars>>
    /\ UNCHANGED callVars
    /\ outbound' = NoOutbound
    /\ told' = told_after(told, outbound', pc')
    /\ UNCHANGED lockVars

\* InMemoryRoomRepository::add_participant, second block: connected_clients.lock(), insert.
AddParticipantClients(c) ==
    /\ pc[c] = "add_participant_clients"
    /\ clients_lock = NoLock
    /\ connected_clients' =
           clients_insert(connected_clients, client_id[c], ClientInfo(c))
    /\ result' = [result EXCEPT ![c] = [tag |-> "Ok"]]
    /\ status' = [status EXCEPT ![c] = StatusOf([tag |-> "Ok"])]
    /\ pc' = [pc EXCEPT ![c] = "handle_socket"]
    /\ UNCHANGED <<room, clients_lock, client_id, room_err,
                   notify_targets, disconnect_result, recvVars>>
    /\ UNCHANGED callVars
    /\ outbound' = NoOutbound
    /\ told' = told_after(told, outbound', pc')
    /\ UNCHANGED lockVars

\* ------------------------------------------------------------ handle_socket

\* build_participant_list, then sender.send(room-connected): the send succeeds or
\* fails; on failure handle_socket returns.
SendRoomConnected(c) ==
    /\ pc[c] = "handle_socket"
    /\ \/ /\ pc' = [pc EXCEPT ![c] = "get_connected_at"]
          /\ outbound' = [NoOutbound EXCEPT ![c] =
                 RoomConnectedMessage(build_participant_list(room.participants))]
       \/ /\ pc' = [pc EXCEPT ![c] = "returned"]
          /\ outbound' = NoOutbound
    /\ UNCHANGED <<room, connected_clients, clients_lock, client_id,
                   result, room_err, status, notify_targets, disconnect_result, recvVars>>
    /\ UNCHANGED callVars
    /\ told' = told_after(told, outbound', pc')
    /\ UNCHANGED lockVars

\* clients.get(&client_id).map(|info| info.connected_at).unwrap()
GetConnectedAt(c) ==
    /\ pc[c] = "get_connected_at"
    /\ clients_lock = NoLock
    /\ IF client_id[c] \in DOMAIN connected_clients
       THEN pc' = [pc EXCEPT ![c] = "broadcast_joined"]
       ELSE pc' = [pc EXCEPT ![c] = "panicked"]
    /\ UNCHANGED <<room, connected_clients, clients_lock, client_id,
                   result, room_err, status, notify_targets, disconnect_result, recvVars>>
    /\ UNCHANGED callVars
    /\ outbound' = NoOutbound
    /\ told' = told_after(told, outbound', pc')
    /\ UNCHANGED lockVars

\* participant-joined fan-out under the connected_clients lock, then both tasks are spawned.
BroadcastJoined(c) ==
    /\ pc[c] = "broadcast_joined"
    /\ clients_lock = NoLock
    /\ pc' = [pc EXCEPT ![c] = "running"]
    /\ recv_pc' = [recv_pc EXCEPT ![c] = "recv"]
    /\ UNCHANGED <<room, connected_clients, clients_lock, client_id,
                   result, room_err, status, notify_targets, disconnect_result,
                   aborted, send_from, broadcast_targets, send_result, response_json>>
    /\ UNCHANGED callVars
    /\ outbound' = send_to_targets(connected_clients,
                                   targets_excluding(DOMAIN connected_clients, client_id[c]),
                                   ParticipantJoinedMessage(client_id[c]))
    /\ told' = told_after(told, outbound', pc')
    /\ UNCHANGED lockVars

\* ------------------------------------------------------------ recv_task

\* A text frame: both value objects are built (a frame that fails either validation is
\* logged and dropped: the match arms (Err(_), _) and (_, Err(_))), then
\* SendMessageUseCase::execute takes the room lock and calls Room::add_message.
RecvText(c, from, content) ==
    /\ recv_pc[c] = "recv"
    /\ IF ~ClientId_new(from).ok
       THEN /\ send_result' = [send_result EXCEPT ![c] = [tag |-> "InvalidClientId"]]
            /\ UNCHANGED <<room, recv_pc, send_from, response_json>>
       ELSE IF ~MessageContent_new(content).ok
       THEN /\ send_result' = [send_result EXCEPT ![c] = [tag |-> "InvalidContent"]]
            /\ UNCHANGED <<room, recv_pc, send_from, response_json>>
       ELSE LET r == Room_add_message(room, ChatMessage_new(from, content)) IN
            /\ room' = r.room
            /\ IF r.ok
               THEN /\ recv_pc' = [recv_pc EXCEPT ![c] = "get_broadcast_targets"]
                    /\ send_from' = [send_from EXCEPT ![c] = from]
                    /\ send_result' = [send_result EXCEPT ![c] = NoResult]
                    /\ response_json' =
                           [response_json EXCEPT ![c] = ChatMessageDto(from, content)]
               ELSE /\ send_result' =
                           [send_result EXCEPT ![c] = [tag |-> "MessageCapacityExceeded"]]
                    /\ UNCHANGED <<recv_pc, send_from, response_json>>
    /\ UNCHANGED <<connected_clients, clients_lock, connVars, aborted, broadcast_targets>>
    /\ UNCHANGED callVars
    /\ outbound' = NoOutbound
    /\ told' = told_after(told, outbound', pc')
    /\ UNCHANGED lockVars

\* SendMessageUseCase::get_broadcast_targets
GetBroadcastTargets(c) ==
    /\ recv_pc[c] = "get_broadcast_targets"
    /\ clients_lock = NoLock
    /\ broadcast_targets' = [broadcast_targets EXCEPT
           ![c] = targets_excluding(get_all_connected_client_ids, send_from[c])]
    /\ recv_pc' = [recv_pc EXCEPT ![c] = "fan_out"]
    /\ UNCHANGED <<room, connected_clients, clients_lock, connVars, aborted, send_from,
                   send_result, response_json>>
    /\ UNCHANGED callVars
    /\ outbound' = NoOutbound
    /\ told' = told_after(told, outbound', pc')
    /\ UNCHANGED lockVars

\* the chat fan-out under the connected_clients lock
FanOut(c) ==
    /\ recv_pc[c] = "fan_out"
    /\ clients_lock = NoLock
    /\ recv_pc' = [recv_pc EXCEPT ![c] = "recv"]
    /\ broadcast_targets' = [broadcast_targets EXCEPT ![c] = {}]
    /\ send_from' = [send_from EXCEPT ![c] = NoId]
    /\ response_json' = [response_json EXCEPT ![c] = NoEvent]
    /\ UNCHANGED <<room, connected_clients, clients_lock, connVars, aborted, send_result>>
    /\ UNCHANGED callVars
    /\ outbound' = send_to_targets(connected_clients, broadcast_targets[c], response_json[c])
    /\ told' = told_after(told, outbound', pc')
    /\ UNCHANGED lockVars

\* a Close frame, a stream error or the end of the stream: the loop breaks
RecvEnds(c) ==
    /\ recv_pc[c] = "recv"
    /\ recv_pc' = [recv_pc EXCEPT ![c] = "ended"]
    /\ send_result' = [send_result EXCEPT ![c] = NoResult]
    /\ aborted' = [aborted EXCEPT ![c] = FALSE]
    /\ UNCHANGED <<room, connected_clients, clients_lock, connVars,
                   send_from, broadcast_targets, response_json>>
    /\ UNCHANGED callVars
    /\ outbound' = NoOutbound
    /\ told' = told_after(told, outbound', pc')
    /\ UNCHANGED lockVars

\* the aborted recv_task is dropped at an await point
RecvCancelled(c) ==
    /\ aborted[c]
    /\ recv_pc[c] \in {"recv", "get_broadcast_targets", "fan_out"}
    /\ recv_pc' = [recv_pc EXCEPT ![c] = "ended"]
    /\ broadcast_targets' = [broadcast_targets EXCEPT ![c] = {}]
    /\ send_from' = [send_from EXCEPT ![c] = NoId]
    /\ send_result' = [send_result EXCEPT ![c] = NoResult]
    /\ aborted' = [aborted EXCEPT ![c] = FALSE]
    /\ response_json' = [response_json EXCEPT ![c] = NoEvent]
    /\ UNCHANGED <<room, connected_clients, clients_lock, connVars>>
    /\ UNCHANGED callVars
    /\ outbound' = NoOutbound
    /\ told' = told_after(told, outbound', pc')
    /\ UNCHANGED lockVars

\* ------------------------------------------------------------ select

\* select!: recv_task completed, send_task.abort()
SelectRecvDone(c) ==
    /\ pc[c] = "running"
    /\ recv_pc[c] = "ended"
    /\ pc' = [pc EXCEPT ![c] = "get_notify_targets"]
    /\ UNCHANGED <<room, connected_clients, clients_lock, client_id,
                   result, room_err, status, notify_targets, disconnect_result, recvVars>>
    /\ UNCHANGED callVars
    /\ outbound' = NoOutbound
    /\ told' = told_after(told, outbound', pc')
    /\ UNCHANGED lockVars

\* JoinHandle::abort that requests nothing
JoinHandle_abort_Noop(flags, c) == flags

\* JoinHandle::abort: cancellation is requested and the caller goes on without waiting;
\* the task is dropped when it next yields at an await point (RecvCancelled)
JoinHandle_abort(flags, c) == [flags EXCEPT ![c] = TRUE]

\* select!: send_task completed (the sink failed or the queue closed), recv_task.abort()
SelectSendDone(c) ==
    /\ pc[c] = "running"
    /\ recv_pc[c] # "ended"
    /\ aborted' = JoinHandle_abort(aborted, c)
    /\ pc' = [pc EXCEPT ![c] = "get_notify_targets"]
    /\ UNCHANGED <<room, connected_clients, clients_lock, client_id,
                   result, room_err, status, notify_targets, disconnect_result,
                   recv_pc, send_from, broadcast_targets, send_result, response_json>>
    /\ UNCHANGED callVars
    /\ outbound' = NoOutbound
    /\ told' = told_after(told, outbound', pc')
    /\ UNCHANGED lockVars

\* ------------------------------------------------------------ disconnect

\* DisconnectParticipantUseCase::get_notify_targets
GetNotifyTargets(c) ==
    /\ pc[c] = "get_notify_targets"
    /\ clients_lock = NoLock
    /\ notify_targets' = [notify_targets EXCEPT
           ![c] = targets_excluding(get_all_connected_client_ids, client_id[c])]
    /\ pc' = [pc EXCEPT ![c] = "remove_participant_clients"]
    /\ UNCHANGED <<room, connected_clients, clients_lock, client_id,
                   result, room_err, status, disconnect_result, recvVars>>
    /\ UNCHANGED callVars
    /\ outbound' = NoOutbound
    /\ told' = told_after(told, outbound', pc')
    /\ UNCHANGED lockVars

\* InMemoryRoomRepository::remove_participant: connected_clients.lock(), remove; on
\* ClientInfoNotFound the use case returns Err and the handler logs it. Otherwise the
\* lock stays held while the method waits for the room lock.
RemoveParticipantClients(c) ==
    /\ pc[c] = "remove_participant_clients"
    /\ clients_lock = NoLock
    /\ IF clients_remove_is_some(connected_clients, client_id[c])
       THEN /\ connected_clients' = clients_remove(connected_clients, client_id[c])
            /\ clients_lock' = c
            /\ pc' = [pc EXCEPT ![c] = "remove_participant_room"]
            /\ UNCHANGED <<notify_targets, disconnect_result>>
       ELSE /\ disconnect_result' = [disconnect_result EXCEPT
                   ![c] = DisconnectError_of(ClientInfoNotFound(client_id[c]))]
            /\ notify_targets' = [notify_targets EXCEPT ![c] = {}]
            /\ pc' = [pc EXCEPT ![c] = "done"]
            /\ UNCHANGED <<connected_clients, clients_lock>>
    /\ UNCHANGED <<room, client_id, result, room_err, status, recvVars>>
    /\ UNCHANGED callVars
    /\ outbound' = NoOutbound
    /\ told' = told_after(told, outbound', pc')
    /\ UNCHANGED lockVars

\* the connected_clients guard kept past the end of the method
MutexGuard_drop_Leaked(holder) == holder

\* the connected_clients guard goes out of scope at the end of the method
MutexGuard_drop(holder) == NoLock

\* InMemoryRoomRepository::remove_participant: room.lock(), Room::remove_participant,
\* both guards dropped; the use case returns Ok(notify_targets).
RemoveParticipantRoom(c) ==
    /\ pc[c] = "remove_participant_room"
    /\ clients_lock = c
    /\ room' = Room_remove_participant(room, client_id[c])
    /\ clients_lock' = MutexGuard_drop(clients_lock)
    /\ disconnect_result' =
           [disconnect_result EXCEPT ![c] = [tag |-> "Ok"]]
    /\ pc' = [pc EXCEPT ![c] = "broadcast_left"]
    /\ UNCHANGED <<connected_clients, client_id, result, room_err,
                   status, notify_targets, recvVars>>
    /\ UNCHANGED callVars
    /\ outbound' = NoOutbound
    /\ told' = told_after(told, outbound', pc')
    /\ UNCHANGED lockVars

\* the participant-left fan-out under the connected_clients lock; handle_socket returns
BroadcastLeft(c) ==
    /\ pc[c] = "broadcast_left"
    /\ clients_lock = NoLock
    /\ pc' = [pc EXCEPT ![c] = "done"]
    /\ notify_targets' = [notify_targets EXCEPT ![c] = {}]
    /\ UNCHANGED <<room, connected_clients, clients_lock, client_id,
                   result, room_err, status, disconnect_result, recvVars>>
    /\ UNCHANGED callVars
    /\ outbound' = send_to_targets(connected_clients, notify_targets[c],
                                   ParticipantLeftMessage(client_id[c]))
    /\ told' = told_after(told, outbound', pc')
    /\ UNCHANGED lockVars

\* ------------------------------------------------------------ specification

Next ==
    \/ \E c \in Conns, id \in IdInputs : WebsocketHandler(c, id)
    \/ \E c \in Conns : AddParticipantRoom(c)
    \/ \E c \in Conns : AddParticipantClients(c)
    \/ \E c \in Conns : SendRoomConnected(c)
    \/ \E c \in Conns : GetConnectedAt(c)
    \/ \E c \in Conns : BroadcastJoined(c)
    \/ \E c \in Conns, from \in IdInputs, content \in ContentInputs : RecvText(c, from, content)
    \/ \E c \in Conns : GetBroadcastTargets(c)
    \/ \E c \in Conns : FanOut(c)
    \/ \E c \in Conns : RecvEnds(c)
    \/ \E c \in Conns : RecvCancelled(c)
    \/ \E c \in Conns : SelectRecvDone(c)
    \/ \E c \in Conns : SelectSendDone(c)
    \/ \E c \in Conns : GetNotifyTargets(c)
    \/ \E c \in Conns : RemoveParticipantClients(c)
    \/ \E c \in Conns : RemoveParticipantRoom(c)
    \/ \E c \in Conns : BroadcastLeft(c)

Spec == Init /\ [][Next]_vars

\* ------------------------------------------------------------ sequential calls

\* The use cases and the value-object constructors called one at a time, each call
\* running to completion before the next one starts (as the unit tests of the use cases
\* and of the repository call them), on a room of up to three participants.

\* Largest participant_capacity of the room the calls run against.
SeqMaxParticipantCapacity == 3

SeqIds == {"alice", "bob", "charlie"}

\* a String of n bytes
StringOfLen(n) == [i \in 1..n |-> "a"]

\* lengths of the strings handed to the constructors: empty, shortest, and both sides
\* of each limit
LenInputs == {0, 1, ClientIdMaxLen, ClientIdMaxLen + 1,
              MessageContentMaxLen, MessageContentMaxLen + 1}

SeqInit ==
    /\ \E pcap \in 1..SeqMaxParticipantCapacity : room = Room_with_capacity(pcap, 1)
    /\ connected_clients = << >>
    /\ clients_lock = NoLock
    /\ pc = [c \in Conns |-> "idle"]
    /\ client_id = [c \in Conns |-> NoId]
    /\ result = [c \in Conns |-> NoResult]
    /\ room_err = [c \in Conns |-> NoError]
    /\ status = [c \in Conns |-> "None"]
    /\ notify_targets = [c \in Conns |-> {}]
    /\ disconnect_result = [c \in Conns |-> NoResult]
    /\ recv_pc = [c \in Conns |-> "none"]
    /\ aborted = [c \in Conns |-> FALSE]
    /\ send_from = [c \in Conns |-> NoId]
    /\ broadcast_targets = [c \in Conns |-> {}]
    /\ send_result = [c \in Conns |-> NoResult]
    /\ participant_list = << >>
    /\ vo = NoResult
    /\ response_json = [c \in Conns |-> NoEvent]
    /\ outbound = NoOutbound
    /\ told = ToldNotKept
    /\ room_lock = NoLock
    /\ calls = NoCalls

\* ConnectParticipantUseCase::execute, from the duplicate check to the insert of the handle
Seq_connect(id) ==
    /\ UNCHANGED outbound
    /\ IF IsDuplicate(get_all_connected_client_ids, id)
       THEN UNCHANGED <<room, connected_clients>>
       ELSE LET r == Room_add_participant(room, Participant_new(id)) IN
            /\ room' = r.room
            /\ connected_clients' =
                   IF r.ok THEN clients_insert(connected_clients, id, ClientInfo(1))
                   ELSE connected_clients
    /\ UNCHANGED <<clients_lock, connVars, recvVars, callVars>>
    /\ UNCHANGED told
    /\ UNCHANGED lockVars

\* DisconnectParticipantUseCase::execute, from the notify targets to the removal
Seq_disconnect(id) ==
    /\ UNCHANGED outbound
    /\ IF clients_remove_is_some(connected_clients, id)
       THEN /\ connected_clients' = clients_remove(connected_clients, id)
            /\ room' = Room_remove_participant(room, id)
       ELSE UNCHANGED <<room, connected_clients>>
    /\ UNCHANGED <<clients_lock, connVars, recvVars, callVars>>
    /\ UNCHANGED told
    /\ UNCHANGED lockVars

\* ConnectParticipantUseCase::build_participant_list
Seq_build_participant_list ==
    /\ UNCHANGED outbound
    /\ participant_list' = build_participant_list(room.participants)
    /\ UNCHANGED <<room, connected_clients, clients_lock, connVars, recvVars, vo>>
    /\ UNCHANGED told
    /\ UNCHANGED lockVars

\* ClientId::new on a string of n bytes
Seq_ClientId_new(n) ==
    /\ UNCHANGED outbound
    /\ vo' = [kind |-> "ClientId", len |-> n, result |-> ClientId_new(StringOfLen(n))]
    /\ UNCHANGED <<room, connected_clients, clients_lock, connVars, recvVars,
                   participant_list>>
    /\ UNCHANGED told
    /\ UNCHANGED lockVars

\* MessageContent::new on a string of n bytes
Seq_MessageContent_new(n) ==
    /\ UNCHANGED outbound
    /\ vo' = [kind |-> "MessageContent", len |-> n,
              result |-> MessageContent_new(StringOfLen(n))]
    /\ UNCHANGED <<room, connected_clients, clients_lock, connVars, recvVars,
                   participant_list>>
    /\ UNCHANGED told
    /\ UNCHANGED lockVars

SeqNext ==
    \/ \E id \in SeqIds : Seq_connect(id)
    \/ \E id \in SeqIds : Seq_disconnect(id)
    \/ Seq_build_participant_list
    \/ \E n \in LenInputs : Seq_ClientId_new(n)
    \/ \E n \in LenInputs : Seq_MessageContent_new(n)

SeqSpec == SeqInit /\ [][SeqNext]_vars

\* ------------------------------------------------------------ three connections

\* Connects and disconnects of three connections and three ids on a room of two
\* participants; the connections send no text frame and end by their inbound stream
\* ending.

\* Number of connections of the specification of connects and disconnects.
RaceMaxConn == 3

RaceConns == 1..RaceMaxConn

RaceIds == {"alice", "bob", "charlie"}

RaceInit ==
    /\ room = Room_with_capacity(2, 1)
    /\ connected_clients = << >>
    /\ clients_lock = NoLock
    /\ pc = [c \in RaceConns |-> "idle"]
    /\ client_id = [c \in RaceConns |-> NoId]
    /\ result = [c \in RaceConns |-> NoResult]
    /\ room_err = [c \in RaceConns |-> NoError]
    /\ status = [c \in RaceConns |-> "None"]
    /\ notify_targets = [c \in RaceConns |-> {}]
    /\ disconnect_result = [c \in RaceConns |-> NoResult]
    /\ recv_pc = [c \in RaceConns |-> "none"]
    /\ aborted = [c \in RaceConns |-> FALSE]
    /\ send_from = [c \in RaceConns |-> NoId]
    /\ broadcast_targets = [c \in RaceConns |-> {}]
    /\ send_result = [c \in RaceConns |-> NoResult]
    /\ participant_list = << >>
    /\ vo = NoResult
    /\ response_json = [c \in RaceConns |-> NoEvent]
    /\ outbound = NoOutbound
    /\ told = ToldNotKept
    /\ room_lock = NoLock
    /\ calls = NoCalls

RaceNext ==
    \/ \E c \in RaceConns, id \in RaceIds : WebsocketHandler(c, id)
    \/ \E c \in RaceConns : AddParticipantRoom(c)
    \/ \E c \in RaceConns : AddParticipantClients(c)
    \/ \E c \in RaceConns : SendRoomConnected(c)
    \/ \E c \in RaceConns : GetConnectedAt(c)
    \/ \E c \in RaceConns : BroadcastJoined(c)
    \/ \E c \in RaceConns : RecvEnds(c)
    \/ \E c \in RaceConns : SelectRecvDone(c)
    \/ \E c \in RaceConns : GetNotifyTargets(c)
    \/ \E c \in RaceConns : RemoveParticipantClients(c)
    \/ \E c \in RaceConns : RemoveParticipantRoom(c)
    \/ \E c \in RaceConns : BroadcastLeft(c)

RaceSpec == RaceInit /\ [][RaceNext]_vars

\* ------------------------------------------------------------ what clients are told

\* Connects and disconnects of three connections with two ids on a room of two, as in
\* RaceSpec, with the record of what each client has been told of each id.

\* Number of connections of the specification that records what clients are told.
TellMaxConn == 3

TellConns == 1..TellMaxConn

\* the state after construction for handlers conns on room r, with told starting as t
\* (calls is left to the specification)
HandlersInit(conns, r, t) ==
    /\ room = r
    /\ connected_clients = << >>
    /\ clients_lock = NoLock
    /\ pc = [c \in conns |-> "idle"]
    /\ client_id = [c \in conns |-> NoId]
    /\ result = [c \in conns |-> NoResult]
    /\ room_err = [c \in conns |-> NoError]
    /\ status = [c \in conns |-> "None"]
    /\ notify_targets = [c \in conns |-> {}]
    /\ disconnect_result = [c \in conns |-> NoResult]
    /\ recv_pc = [c \in conns |-> "none"]
    /\ aborted = [c \in conns |-> FALSE]
    /\ send_from = [c \in conns |-> NoId]
    /\ broadcast_targets = [c \in conns |-> {}]
    /\ send_result = [c \in conns |-> NoResult]
    /\ participant_list = << >>
    /\ vo = NoResult
    /\ response_json = [c \in conns |-> NoEvent]
    /\ outbound = NoOutbound
    /\ told = t
    /\ room_lock = NoLock

TellInit ==
    /\ HandlersInit(TellConns, Room_with_capacity(2, 1), [c \in TellConns |-> ToldNothing])
    /\ calls = NoCalls

TellNext ==
    \/ \E c \in TellConns, id \in ValidIds : WebsocketHandler(c, id)
    \/ \E c \in TellConns : AddParticipantRoom(c)
    \/ \E c \in TellConns : AddParticipantClients(c)
    \/ \E c \in TellConns : SendRoomConnected(c)
    \/ \E c \in TellConns : GetConnectedAt(c)
    \/ \E c \in TellConns : BroadcastJoined(c)
    \/ \E c \in TellConns : RecvEnds(c)
    \/ \E c \in TellConns : SelectRecvDone(c)
    \/ \E c \in TellConns : GetNotifyTargets(c)
    \/ \E c \in TellConns : RemoveParticipantClients(c)
    \/ \E c \in TellConns : RemoveParticipantRoom(c)
    \/ \E c \in TellConns : BroadcastLeft(c)

TellSpec == TellInit /\ [][TellNext]_vars

\* The same with one id per connection: no two requests carry the same id, the room has
\* place for all three.

\* Number of connections of the specification with one id per connection.
JoinMaxConn == 3

JoinConns == 1..JoinMaxConn

\* the client_id of the requests of connection c
JoinIdOf(c) ==
    IF c = 1 THEN "alice" ELSE IF c = 2 THEN "bob" ELSE IF c = 3 THEN "charlie" ELSE "dave"

JoinInit ==
    /\ HandlersInit(JoinConns, Room_with_capacity(JoinMaxConn, 1),
                    [c \in JoinConns |-> ToldNothing])
    /\ calls = NoCalls

JoinNext ==
    \/ \E c \in JoinConns : WebsocketHandler(c, JoinIdOf(c))
    \/ \E c \in JoinConns : AddParticipantRoom(c)
    \/ \E c \in JoinConns : AddParticipantClients(c)
    \/ \E c \in JoinConns : SendRoomConnected(c)
    \/ \E c \in JoinConns : GetConnectedAt(c)
    \/ \E c \in JoinConns : BroadcastJoined(c)
    \/ \E c \in JoinConns : RecvEnds(c)
    \/ \E c \in JoinConns : SelectRecvDone(c)
    \/ \E c \in JoinConns : GetNotifyTargets(c)
    \/ \E c \in JoinConns : RemoveParticipantClients(c)
    \/ \E c \in JoinConns : RemoveParticipantRoom(c)
    \/ \E c \in JoinConns : BroadcastLeft(c)

JoinSpec == JoinInit /\ [][JoinNext]_vars

\* ------------------------------------------------------------ properties

\* The connect of c returned Ok and its disconnect has not yet removed anything.
Connected(c) ==
    /\ result[c].tag = "Ok"
    /\ pc[c] \in {"handle_socket", "get_connected_at", "broadcast_joined", "running",
                  "get_notify_targets", "remove_participant_clients"}

\* C1: whenever the handle registry can be observed (its lock is free), the ids with a
\* registered handle are exactly the ids in room.participants.
C1_HandlesEqualParticipants ==
    clients_lock = NoLock => get_all_connected_client_ids = ParticipantIds

\* C2: the ids in room.participants are pairwise distinct.
C2_ParticipantIdsDistinct ==
    \A i, j \in 1..Len(room.participants) :
        i # j => room.participants[i].id # room.participants[j].id

\* C3: no two connections hold a successful connect for the same id at the same time.
C3_AtMostOneConnectOk ==
    \A c1, c2 \in Conns :
        (c1 # c2 /\ Connected(c1) /\ Connected(c2)) => client_id[c1] # client_id[c2]

\* C4: the number of participants never exceeds participant_capacity.
C4_ParticipantCapacity == Len(room.participants) <= room.participant_capacity

\* C4 witness: the room is full and a connect was rejected for capacity.
C4_Witness ==
    /\ Len(room.participants) = room.participant_capacity
    /\ \E c \in Conns : pc[c] = "rejected" /\ result[c].tag = "RoomCapacityExceeded"

\* C5: the number of stored messages never exceeds message_capacity.
C5_MessageCapacity == Len(room.messages) <= room.message_capacity

\* C5 witness: two connections are both receiving frames, the history is full and a send
\* of one of them was rejected.
C5_Witness ==
    /\ Len(room.messages) = room.message_capacity
    /\ \E c1, c2 \in Conns :
           /\ c1 # c2
           /\ recv_pc[c1] = "recv" /\ send_result[c1].tag = "MessageCapacityExceeded"
           /\ recv_pc[c2] \in {"recv", "get_broadcast_targets", "fan_out"}

\* C6: a connect whose id has a registered handle is answered DuplicateClientId, and
\* the step changes neither the room nor the handle registry.
C6_DuplicateRejected ==
    [][\A c \in Conns, id \in ValidIds :
          (WebsocketHandler(c, id) /\ id \in get_all_connected_client_ids)
              => /\ result'[c].tag = "DuplicateClientId"
                 /\ room' = room
                 /\ connected_clients' = connected_clients]_vars

\* C6 witness: a connect was rejected as a duplicate of a connected participant.
C6_Witness ==
    \E c \in Conns :
        /\ pc[c] = "rejected" /\ result[c].tag = "DuplicateClientId"
        /\ client_id[c] \in get_all_connected_client_ids
        /\ client_id[c] \in ParticipantIds

\* C7: when the store evaluates the connect of a new id against a full room, the
\* connect is answered RoomCapacityExceeded and room and registry stay as they were.
C7_FullRoomRejects ==
    [][\A c \in Conns :
          (/\ AddParticipantRoom(c)
           /\ Len(room.participants) = room.participant_capacity
           /\ client_id[c] \notin ParticipantIds \cup get_all_connected_client_ids)
              => /\ result'[c].tag = "RoomCapacityExceeded"
                 /\ room' = room
                 /\ connected_clients' = connected_clients]_vars

\* C7 witness: a new id was rejected by a full room.
C7_Witness ==
    \E c \in Conns :
        /\ pc[c] = "rejected" /\ result[c].tag = "RoomCapacityExceeded"
        /\ Len(room.participants) = room.participant_capacity
        /\ client_id[c] \notin ParticipantIds \cup get_all_connected_client_ids

\* C8 as stated: the error a connect rejected for capacity reports carries
\* capacity = participant_capacity and current = the number of participants.
C8_ConnectErrorCarriesCapacity ==
    [][\A c \in Conns :
          (AddParticipantRoom(c) /\ pc'[c] = "rejected")
              => /\ {"capacity", "current"} \subseteq DOMAIN result'[c]
                 /\ result'[c].capacity = room.participant_capacity
                 /\ result'[c].current = Len(room.participants)]_vars

\* C8 as amended: Room::add_participant rejects with CapacityExceeded carrying
\* capacity = participant_capacity and current = the number of participants; the
\* connect use case reports it as RoomCapacityExceeded, which carries neither.
C8_RoomErrorCarriesCapacity ==
    [][\A c \in Conns :
          (AddParticipantRoom(c) /\ pc'[c] = "rejected")
              => /\ room_err'[c] = [tag |-> "CapacityExceeded",
                                    capacity |-> room.participant_capacity,
                                    current |-> Len(room.participants)]
                 /\ result'[c] = [tag |-> "RoomCapacityExceeded"]]_vars

\* C8 witness: capacity 2, two participants, a third connect rejected with
\* CapacityExceeded{capacity: 2, current: 2} inside the store.
C8_Witness ==
    \E c \in Conns :
        /\ pc[c] = "rejected" /\ result[c] = [tag |-> "RoomCapacityExceeded"]
        /\ room_err[c] = [tag |-> "CapacityExceeded", capacity |-> 2, current |-> 2]
        /\ Len(room.participants) = 2

\* C9: a valid frame sent while the history is full is answered
\* MessageCapacityExceeded and the history stays as it was.
C9_FullHistoryRejects ==
    [][\A c \in Conns, from \in ValidIds, content \in ContentInputs :
          (/\ RecvText(c, from, content)
           /\ MessageContent_new(content).ok
           /\ Len(room.messages) = room.message_capacity)
              => /\ send_result'[c].tag = "MessageCapacityExceeded"
                 /\ room'.messages = room.messages]_vars

\* C9 witness: a send was rejected by a full history.
C9_Witness ==
    \E c \in Conns :
        /\ send_result[c].tag = "MessageCapacityExceeded"
        /\ Len(room.messages) = room.message_capacity
        /\ room.message_capacity = 2

\* C10: the peer list a successful disconnect returns is drawn from the post-removal
\* state: every id in it is still registered when the removal takes effect (it holds no
\* id whose own removal had already taken effect).
C10_PeerListHasNoRemovedId ==
    [][\A c \in Conns :
          RemoveParticipantRoom(c)
              => notify_targets[c] \subseteq get_all_connected_client_ids' \ {client_id[c]}]_vars

\* C11: between the append of a message to the history and the computation of that
\* send's peer list no connect or disconnect of another id takes effect on the handle
\* registry, so that the list is the set of ids registered at the instant of the append,
\* minus from.
C11_NoRegistryChangeBeforePeerList ==
    [][\A c \in Conns :
          recv_pc[c] = "get_broadcast_targets"
              => targets_excluding(get_all_connected_client_ids', send_from[c])
                     = targets_excluding(get_all_connected_client_ids, send_from[c])]_vars

\* C12: the peer list of a successful send never contains from and contains every
\* other registered id.
C12_PeerListExcludesSender ==
    [][\A c \in Conns :
          GetBroadcastTargets(c)
              => /\ send_from[c] \notin broadcast_targets'[c]
                 /\ \A id \in get_all_connected_client_ids :
                        id # send_from[c] => id \in broadcast_targets'[c]]_vars

\* C12 witness: two ids are registered, one of them sent a message and the peer list of
\* that send holds the other one only.
C12_Witness ==
    \E c \in Conns :
        /\ recv_pc[c] = "fan_out"
        /\ Cardinality(get_all_connected_client_ids) = 2
        /\ send_from[c] \in get_all_connected_client_ids
        /\ broadcast_targets[c] = get_all_connected_client_ids \ {send_from[c]}

\* C13: a disconnect of an id that has no registered handle returns an error (the
\* store's ClientInfoNotFound) and leaves participants, messages and the handle registry
\* unchanged.
C13_DisconnectUnknownIsError ==
    [][\A c \in Conns :
          (RemoveParticipantClients(c) /\ client_id[c] \notin get_all_connected_client_ids)
              => /\ disconnect_result'[c].tag = "Err"
                 /\ disconnect_result'[c].cause.tag = "ClientInfoNotFound"
                 /\ room' = room
                 /\ connected_clients' = connected_clients]_vars

\* C13 witness: a disconnect found no handle for its id and returned Err.
C13_Witness ==
    \E c \in Conns :
        /\ pc[c] = "done"
        /\ disconnect_result[c] = DisconnectError_of(ClientInfoNotFound(client_id[c]))
        /\ client_id[c] \notin get_all_connected_client_ids

\* C14: a failed operation has no partial effect.  A step that changes the room or the
\* handle registry is neither a step of a connect or disconnect that runs before its
\* mutation (validation, duplicate check, notify targets) nor the step at which a
\* connect, a disconnect or a send returns its error.
C14_FailureHasNoPartialEffect ==
    [][(room' # room \/ connected_clients' # connected_clients)
          => \A c \in Conns :
                 /\ \A id \in IdInputs : ~WebsocketHandler(c, id)
                 /\ ~(AddParticipantRoom(c) /\ pc'[c] = "rejected")
                 /\ ~GetNotifyTargets(c)
                 /\ ~(RemoveParticipantClients(c) /\ disconnect_result'[c].tag = "Err")
                 /\ \A from \in IdInputs, content \in ContentInputs :
                        ~(RecvText(c, from, content) /\ send_result'[c].tag # "None")]_vars

\* C14 witness: a connect was rejected as a duplicate while the handle registered under
\* its id is still the one of the other connection, and a send of that other connection
\* was rejected by the full history.
C14_Witness ==
    \E c1, c2 \in Conns :
        /\ pc[c1] = "rejected" /\ result[c1].tag = "DuplicateClientId"
        /\ client_id[c1] \in get_all_connected_client_ids
        /\ connected_clients[client_id[c1]] = ClientInfo(c2)
        /\ send_result[c2].tag = "MessageCapacityExceeded"
        /\ Len(room.messages) = room.message_capacity

\* s is a prefix of t
IsPrefix(s, t) == Len(s) <= Len(t) /\ SubSeq(t, 1, Len(s)) = s

\* C15: the message history is append-only: at every step the history before the step
\* is a prefix of the history after it, and a successful send adds its message at the end.
C15_HistoryAppendOnly ==
    [][/\ IsPrefix(room.messages, room'.messages)
       /\ \A c \in Conns :
              (recv_pc[c] = "recv" /\ recv_pc'[c] = "get_broadcast_targets")
                  => \E from \in ValidIds, content \in ContentInputs :
                         /\ RecvText(c, from, content)
                         /\ room'.messages
                                = Append(room.messages, ChatMessage_new(from, content))]_vars

\* C15 witness: the history holds two different messages and the send that stored the
\* second one has not yet computed its peer list.
C15_Witness ==
    /\ Len(room.messages) = 2
    /\ room.messages[1] # room.messages[2]
    /\ \E c \in Conns :
           /\ recv_pc[c] = "get_broadcast_targets"
           /\ room.messages[2].from = send_from[c]

\* the index of x in seq
Position(seq, x) == CHOOSE k \in 1..Len(seq) : seq[k] = x

\* C16: participant insertion order is preserved: a successful connect puts the new
\* participant at the end of the sequence, and a disconnect removes the entry of the
\* given id only and keeps the others in their relative order.
C16_ParticipantOrderPreserved ==
    [][\A id \in SeqIds :
          /\ (Seq_connect(id) /\ room' # room)
                 => room'.participants = Append(room.participants, Participant_new(id))
          /\ Seq_disconnect(id)
                 => LET old == room.participants
                        new == room'.participants
                        kept == {old[i] : i \in 1..Len(old)} \ {Participant_new(id)}
                    IN /\ {new[i] : i \in 1..Len(new)} = kept
                       /\ Len(new) = Cardinality(kept)
                       /\ \A i, j \in 1..Len(new) :
                              i < j => Position(old, new[i]) < Position(old, new[j])]_vars

\* C16 witness: three participants were listed, then one of them disconnected, and the two
\* that remain are still in connection order, which is not the ascending order of ids.
C16_Witness ==
    /\ Len(participant_list) = 3
    /\ Len(room.participants) = 2
    /\ cmp_less(room.participants[2].id, room.participants[1].id)

\* C17: the list build_participant_list returns holds exactly the current participants,
\* sorted by id ascending, whatever the order in which they connected.
C17_ListSortedById ==
    [][Seq_build_participant_list
          => LET list == participant_list' IN
             /\ Len(list) = Len(room.participants)
             /\ {list[i].client_id : i \in 1..Len(list)} = ParticipantIds
             /\ \A i, j \in 1..Len(list) :
                    i < j => cmp_less(list[i].client_id, list[j].client_id)]_vars

\* C17 witness: charlie, alice and bob connected in this order and the list is
\* [alice, bob, charlie].
C17_Witness ==
    /\ room.participants = <<Participant_new("charlie"), Participant_new("alice"),
                             Participant_new("bob")>>
    /\ participant_list = <<[client_id |-> "alice"], [client_id |-> "bob"],
                            [client_id |-> "charlie"]>>

\* C18: validation errors never touch shared state: a connect whose id fails validation
\* is answered BAD_REQUEST, and a frame whose sender id or text fails validation is
\* dropped, in both cases with participants, messages and the handle registry unchanged
\* and without a broadcast being started.
C18_ValidationErrorsTouchNothing ==
    [][\A c \in Conns :
          /\ \A id \in IdInputs :
                 ((Len(id) = 0 \/ Len(id) > 100) /\ WebsocketHandler(c, id))
                     => /\ pc'[c] = "rejected" /\ status'[c] = "BAD_REQUEST"
                        /\ room' = room /\ connected_clients' = connected_clients
                        /\ recv_pc'[c] = "none"
          /\ \A from \in IdInputs, content \in ContentInputs :
                 (/\ \/ Len(from) = 0 \/ Len(from) > 100
                     \/ Len(content) = 0 \/ Len(content) > 10000
                  /\ RecvText(c, from, content))
                     => /\ send_result'[c].tag \in {"InvalidClientId", "InvalidContent"}
                        /\ room' = room /\ connected_clients' = connected_clients
                        /\ recv_pc'[c] = "recv"
                        /\ broadcast_targets' = broadcast_targets]_vars

\* C18 witness: with a participant connected and a message stored, a connect with an
\* invalid id was answered BAD_REQUEST and a frame with an invalid text was dropped.
C18_Witness ==
    \E c1, c2 \in Conns :
        /\ pc[c1] = "rejected" /\ status[c1] = "BAD_REQUEST" /\ client_id[c1] = ""
        /\ recv_pc[c2] = "recv" /\ send_result[c2].tag = "InvalidContent"
        /\ Len(room.participants) = 1 /\ Len(room.messages) = 1
        /\ get_all_connected_client_ids = ParticipantIds

\* C19: a participant id is accepted iff its length is between 1 and 100, a message text
\* iff its length is between 1 and 10000; an empty string yields the Empty error and a
\* longer one the TooLong error carrying max and the actual length.
C19_ConstructorsAcceptInRange ==
    "kind" \in DOMAIN vo =>
        LET isId == vo.kind = "ClientId"
            max == IF isId THEN 100 ELSE 10000
        IN /\ vo.result.ok <=> (1 <= vo.len /\ vo.len <= max)
           /\ vo.len = 0 =>
                  vo.result.err =
                      [tag |-> IF isId THEN "ClientIdEmpty" ELSE "MessageContentEmpty"]
           /\ vo.len > max =>
                  vo.result.err =
                      [tag |-> IF isId THEN "ClientIdTooLong" ELSE "MessageContentTooLong",
                       max |-> max, actual |-> vo.len]

\* C19 witness: an id of exactly 100 bytes was accepted.
C19_Witness ==
    /\ "kind" \in DOMAIN vo
    /\ vo.kind = "ClientId" /\ vo.len = 100 /\ vo.result.ok

\* the failures connection c was answered with, each paired with the status the transport
\* layer gave the client for it
FailureStatuses(c) ==
    (IF pc[c] = "rejected"
     THEN {<<IF result[c].tag = "None" THEN "InvalidIdentity" ELSE result[c].tag, status[c]>>}
     ELSE {})
    \cup (IF send_result[c].tag = "MessageCapacityExceeded"
          THEN {<<"MessageCapacityExceeded", SendErrorStatus(send_result[c])>>}
          ELSE {})
    \cup (IF disconnect_result[c].tag = "Err"
          THEN {<<"NotFound", DisconnectErrorStatus(disconnect_result[c])>>}
          ELSE {})

\* C20: each failure is answered with its own externally observable status: two different
\* failures never get the same status.
C20_FailuresHaveDistinctStatus ==
    \A c1, c2 \in Conns :
        \A f1 \in FailureStatuses(c1), f2 \in FailureStatuses(c2) :
            f1[1] # f2[1] => f1[2] # f2[2]

\* the connections whose channel has a handle in the registry
RegisteredConns == {connected_clients[id].sender : id \in DOMAIN connected_clients}

\* C21: a send rejected with MessageCapacityExceeded enqueues nothing on any connection's
\* queue and does not go on to the fan-out; a chat event is only ever enqueued by the
\* fan-out of a frame whose message is in the history.
C21_RejectedSendNotBroadcast ==
    [][/\ \A c \in Conns :
              (recv_pc[c] = "recv" /\ send_result'[c].tag = "MessageCapacityExceeded")
                  => (\A from \in ValidIds, content \in ContentInputs :
                          RecvText(c, from, content)
                              => /\ outbound' = NoOutbound
                                 /\ recv_pc'[c] = "recv"
                                 /\ broadcast_targets'[c] = broadcast_targets[c])
       /\ \A d \in Conns :
              outbound'[d].type = "chat"
                  => \E c \in Conns :
                         /\ FanOut(c)
                         /\ outbound'[d] = response_json[c]
                         /\ \E i \in 1..Len(room.messages) :
                                room.messages[i] = ChatMessage_new(response_json[c].client_id,
                                                                   response_json[c].content)]_vars

\* C21 witness: a send was just rejected by the full history while another connection is
\* registered and running, and nothing was enqueued.
C21_Witness ==
    \E c1, c2 \in Conns :
        /\ c1 # c2
        /\ recv_pc[c1] = "recv" /\ send_result[c1].tag = "MessageCapacityExceeded"
        /\ pc[c2] = "running" /\ recv_pc[c2] = "recv"
        /\ {c1, c2} \subseteq RegisteredConns
        /\ outbound = NoOutbound

\* C22: the chat event of a frame is never enqueued on the queue of the connection that
\* received the frame.
C22_ChatNotEnqueuedToSender ==
    [][\A c \in Conns : FanOut(c) => outbound'[c] = NoEvent]_vars

\* C23: the participant list of the room-connected event a connection is sent holds the
\* connection's own id.
C23_RoomConnectedListsSelf ==
    \A c \in Conns :
        outbound[c].type = "room-connected"
            => \E i \in 1..Len(outbound[c].participants) :
                   outbound[c].participants[i].client_id = client_id[c]

\* C24: a handler whose connect succeeded never ends before it has broadcast
\* participant-joined for its id.
C24_ConnectedHandlerBroadcastsJoined ==
    \A c \in Conns : pc[c] \notin {"returned", "panicked"}

\* C25: every connection that remains registered when a disconnect's removal takes
\* effect is in the list of targets that disconnect sends participant-left to.
C25_LeftReachesRemainingPeers ==
    [][\A c \in Conns :
          RemoveParticipantRoom(c)
              => targets_excluding(get_all_connected_client_ids', client_id[c])
                     \subseteq notify_targets[c]]_vars

\* ------------------------------------------------------------ C26

EntriesOf(ps, id) == {i \in 1..Len(ps) : ps[i].id = id}

\* position in ps of the k-th entry whose id is not id
KthKept(ps, id, k) ==
    CHOOSE i \in (1..Len(ps)) \ EntriesOf(ps, id) :
        Cardinality({j \in (1..Len(ps)) \ EntriesOf(ps, id) : j <= i}) = k

AtNetworkWait(c) ==
    \/ pc[c] = "handle_socket"
    \/ pc[c] = "running"
    \/ recv_pc[c] = "recv"

\* C28: whenever the connected_clients lock is held across a suspension point, its holder
\* is suspended at room.lock() inside InMemoryRoomRepository::remove_participant, not at
\* a socket send or receive.
C28_NoLockHeldAtNetworkWait ==
    \A c \in Conns : clients_lock = c => pc[c] = "remove_participant_room"

\* C28 witness: a handler holds the registry lock (it waits for the room lock) while
\* another connection is waiting on its socket
C28_Witness ==
    \E c, d \in Conns :
        /\ c # d
        /\ clients_lock = c
        /\ pc[c] = "remove_participant_room"
        /\ pc[d] = "running"
        /\ recv_pc[d] = "recv"
        /\ AtNetworkWait(d)

\* ------------------------------------------------------------ C29, C30

\* no ConnectParticipantUseCase::execute and no DisconnectParticipantUseCase::execute
\* is between its first and its last step
Quiescent ==
    \A c \in Conns :
        pc[c] \notin {"add_participant_room", "add_participant_clients",
                      "get_notify_targets", "remove_participant_clients",
                      "remove_participant_room"}

\* C29 as stated: in a quiescent state the keys of the handle registry are the ids of
\* the room's participants.
C29_QuiescentRegistryMatchesRoom ==
    Quiescent => get_all_connected_client_ids = ParticipantIds

\* C30 as stated: the registry never holds more handles than participant_capacity.
C30_HandlesWithinCapacity ==
    Cardinality(DOMAIN connected_clients) <= room.participant_capacity

\* ------------------------------------------------------------ C31 .. C35

\* the handler of c has ended: handle_socket returned or panicked
HandlerEnded(c) == pc[c] \in {"returned", "panicked", "done"}

\* C31 as stated: once the handler of a connection whose connect succeeded has ended,
\* the handle that connection registered is no longer in the registry.
C31_NoHandleOutlivesHandler ==
    \A c \in DOMAIN pc :
        HandlerEnded(c)
            => \A id \in DOMAIN connected_clients : connected_clients[id] # ClientInfo(c)

\* C32 as stated: the lookup of the connection's own connected_at finds an entry, so
\* the unwrap never panics.
C32_ConnectedAtLookupNeverPanics ==
    \A c \in DOMAIN pc : pc[c] # "panicked"

\* C33 as stated: a message is appended only by a step of a recv_task whose connection
\* has the message's from as its client_id, and that id is a participant at that moment.
C33_StoredFromIsSendingParticipant ==
    [][Len(room'.messages) > Len(room.messages)
          => \E c \in DOMAIN pc :
                 /\ recv_pc[c] = "recv"
                 /\ recv_pc'[c] = "get_broadcast_targets"
                 /\ room'.messages[Len(room'.messages)].from = client_id[c]
                 /\ client_id[c] \in ParticipantIds]_vars

\* C34 as stated, for a recv_task that was cancelled in the middle of a frame: once the
\* disconnect of its connection has been applied to the store, the task reads no
\* broadcast targets and makes no chat fan-out; it can only stop.
C34_NoSendAfterDisconnectApplied ==
    [][\A c \in DOMAIN pc :
          (/\ pc[c] \in {"broadcast_left", "done"}
           /\ pc'[c] = pc[c]
           /\ recv_pc[c] \in {"get_broadcast_targets", "fan_out"})
             => recv_pc'[c] \in {recv_pc[c], "ended"}]_vars

\* C35 as stated: a handle leaves the registry only by the disconnect of the connection
\* that registered it, and an insert never replaces the handle of another connection.
C35_OnlyOwnHandleRemovedOrReplaced ==
    [][\A id \in DOMAIN connected_clients :
          /\ id \notin DOMAIN connected_clients'
                => \E c \in DOMAIN pc :
                       /\ connected_clients[id] = ClientInfo(c)
                       /\ pc[c] = "remove_participant_clients"
                       /\ pc'[c] = "remove_participant_room"
          /\ id \in DOMAIN connected_clients'
                => connected_clients'[id] = connected_clients[id]]_vars

\* ------------------------------------------------------------ C38

MembershipQuiescent ==
    \A c \in DOMAIN pc :
        pc[c] \in {"idle", "rejected", "returned", "panicked", "done", "running"}

\* C36 as stated: in a quiescent state, the last participant-joined / participant-left
\* event about an id that a connected peer was sent says joined exactly when the id is
\* registered.
C36_LastMembershipEventMatchesRegistry ==
    MembershipQuiescent
        => \A p \in DOMAIN pc : \A x \in ValidIds :
               (pc[p] = "running" /\ x # client_id[p])
                  => /\ told[p][x] = "joined" => x \in DOMAIN connected_clients
                     /\ told[p][x] = "left" => x \notin DOMAIN connected_clients

\* the reconnect case of C36: the old connection of an id has finished its disconnect, a
\* newer connection of the same id is registered and running, and the last membership
\* event a running peer was sent about the id is participant-left
C36_LeftAfterNewerJoined ==
    \E o, n, p \in DOMAIN pc :
        /\ told # ToldNotKept
        /\ pc[o] = "done" /\ pc[n] = "running" /\ pc[p] = "running"
        /\ client_id[o] = client_id[n] /\ client_id[p] # client_id[n]
        /\ client_id[n] \in DOMAIN connected_clients
        /\ connected_clients[client_id[n]] = ClientInfo(n)
        /\ told[p][client_id[n]] = "left"
        /\ MembershipQuiescent

\* ------------------------------------------------------------ the chat log

\* Connects and text frames of three connections, each with an id of its own and each
\* sending frames that carry its own id, on a room of three that stores up to
\* MaxMessageCapacity messages, with the log of the chat events each queue was handed.

ChatInit ==
    /\ HandlersInit(JoinConns, Room_with_capacity(JoinMaxConn, MaxMessageCapacity),
                    [c \in JoinConns |-> NoChat])
    /\ calls = NoCalls

ChatNext ==
    \/ \E c \in JoinConns : WebsocketHandler(c, JoinIdOf(c))
    \/ \E c \in JoinConns : AddParticipantRoom(c)
    \/ \E c \in JoinConns : AddParticipantClients(c)
    \/ \E c \in JoinConns : SendRoomConnected(c)
    \/ \E c \in JoinConns : GetConnectedAt(c)
    \/ \E c \in JoinConns : BroadcastJoined(c)
    \/ \E c \in JoinConns, content \in ContentInputs : RecvText(c, JoinIdOf(c), content)
    \/ \E c \in JoinConns : GetBroadcastTargets(c)
    \/ \E c \in JoinConns : FanOut(c)

ChatSpec == ChatInit /\ [][ChatNext]_vars

\* ------------------------------------------------------------ C37

\* the place in the room's history of the message that chat event e carries (the first
\* one of its sender; a sender's messages are equal in this model)
HistoryIndex(e) ==
    CHOOSE i \in 1..Len(room.messages) :
        /\ room.messages[i].from = e.client_id
        /\ \A j \in 1..(i - 1) : room.messages[j].from # e.client_id

\* C37: the chat events on the queue of each recipient are in the order of the room's
\* message history: of two events of one queue, the one enqueued first carries the
\* message that is first in room.messages.
C37_ChatEnqueuedInHistoryOrder ==
    \A r \in DOMAIN pc :
        \A a, b \in 1..Len(told[r].chat) :
            a < b => HistoryIndex(told[r].chat[a]) <= HistoryIndex(told[r].chat[b])

\* the case of C37: one queue holds the messages of two senders
C37_TwoSendersOneQueue ==
    \E r \in DOMAIN pc :
        /\ told # ToldNotKept
        /\ Len(told[r].chat) = 2
        /\ told[r].chat[1].client_id # told[r].chat[2].client_id

\* ------------------------------------------------------------ the two locks

\* The lock acquisitions of the repository methods and of the handler's loops, one step
\* per acquisition and per guard drop, with both mutexes explicit.  The data the
\* methods work on is left as it is: only who holds and who waits is followed.

\* Number of tasks calling into the repository at once.
LockMaxTask == 3

LockTasks == 1..LockMaxTask

\* methods whose body is one room critical section
RoomMethods == {"get_room", "add_message", "get_participants"}

\* methods and handler loops whose body is one connected_clients critical section
ClientsMethods == {"get_client_info", "get_all_connected_client_ids",
                   "count_connected_clients", "handle_socket"}

LockMethods == RoomMethods \cup ClientsMethods \cup {"add_participant", "remove_participant"}

NoCall == [method |-> "none", at |-> 0]

\* add_participant without the block around the room critical section: the room guard
\* lives to the end of the method, across connected_clients.lock().await
LockProgram_RoomGuardKept(m) ==
    IF m \in RoomMethods THEN <<"room.lock", "drop room">>
    ELSE IF m \in ClientsMethods THEN <<"clients.lock", "drop clients">>
    ELSE IF m = "add_participant" THEN <<"room.lock", "clients.lock", "drop both">>
    ELSE <<"clients.lock", "room.lock", "drop both">>

\* the lock().await calls and guard drops of a method, in the order of its body
LockProgram(m) ==
    IF m \in RoomMethods THEN <<"room.lock", "drop room">>
    ELSE IF m \in ClientsMethods THEN <<"clients.lock", "drop clients">>
    ELSE IF m = "add_participant"
    THEN <<"room.lock", "drop room", "clients.lock", "drop clients">>
    ELSE <<"clients.lock", "room.lock", "drop both">>

\* what task t is about to do
NextOp(t) ==
    IF calls[t] = NoCall THEN "none" ELSE LockProgram(calls[t].method)[calls[t].at]

\* task t goes on to the next step of its method, or returns after the last one
Advance(t) ==
    IF calls[t].at = Len(LockProgram(calls[t].method))
    THEN [calls EXCEPT ![t] = NoCall]
    ELSE [calls EXCEPT ![t].at = @ + 1]

lockRest == <<room, connected_clients, connVars, recvVars, callVars, outbound, told>>

LockInit ==
    /\ HandlersInit(LockTasks, Room_with_capacity(2, 1), ToldNotKept)
    /\ calls = [t \in LockTasks |-> NoCall]

\* a task calls method m
Call(t, m) ==
    /\ calls[t] = NoCall
    /\ calls' = [calls EXCEPT ![t] = [method |-> m, at |-> 1]]
    /\ UNCHANGED <<room_lock, clients_lock>>
    /\ UNCHANGED lockRest

\* self.room.lock().await returns.  In add_participant, Room::add_participant may
\* return Err: the ? leaves the block, the guard is dropped and the method returns.
LockRoom(t) ==
    /\ NextOp(t) = "room.lock"
    /\ room_lock = NoLock
    /\ \/ /\ room_lock' = t
          /\ calls' = Advance(t)
       \/ /\ calls[t].method = "add_participant"
          /\ room_lock' = NoLock
          /\ calls' = [calls EXCEPT ![t] = NoCall]
    /\ UNCHANGED clients_lock
    /\ UNCHANGED lockRest

\* self.connected_clients.lock().await returns.  In remove_participant, clients.remove
\* may return None: the ? drops the guard and the method returns.
LockClients(t) ==
    /\ NextOp(t) = "clients.lock"
    /\ clients_lock = NoLock
    /\ \/ /\ clients_lock' = t
          /\ calls' = Advance(t)
       \/ /\ calls[t].method = "remove_participant"
          /\ clients_lock' = NoLock
          /\ calls' = [calls EXCEPT ![t] = NoCall]
    /\ UNCHANGED room_lock
    /\ UNCHANGED lockRest

\* the end of a block or of the method: the guards in scope are dropped
Drop(t) ==
    /\ NextOp(t) \in {"drop room", "drop clients", "drop both"}
    /\ room_lock' = IF NextOp(t) \in {"drop room", "drop both"} THEN NoLock ELSE room_lock
    /\ clients_lock' =
           IF NextOp(t) \in {"drop clients", "drop both"} THEN NoLock ELSE clients_lock
    /\ calls' = Advance(t)
    /\ UNCHANGED lockRest

LockNext ==
    \/ \E t \in LockTasks, m \in LockMethods : Call(t, m)
    \/ \E t \in LockTasks : LockRoom(t)
    \/ \E t \in LockTasks : LockClients(t)
    \/ \E t \in LockTasks : Drop(t)

LockSpec == LockInit /\ [][LockNext]_vars

\* tokio's Mutex hands the lock to its waiters in the order they asked (strong fairness
\* of the acquisitions); a task that holds a guard runs to the end of the guard's scope
\* without waiting for anything but the other lock (weak fairness of the drops).
LockFairSpec ==
    /\ LockSpec
    /\ \A t \in LockTasks :
           /\ WF_vars(Drop(t))
           /\ SF_vars(LockRoom(t))
           /\ SF_vars(LockClients(t))

\* ------------------------------------------------------------ C39

\* C39: the room lock and the registry lock never deadlock: a task that waits for a
\* lock gets past the wait (it holds the lock, or has been through its critical
\* section), whatever the other tasks call.
C39_EveryLockRequestIsGranted ==
    \A t \in LockTasks :
        /\ (NextOp(t) = "room.lock") ~> (NextOp(t) # "room.lock")
        /\ (NextOp(t) = "clients.lock") ~> (NextOp(t) # "clients.lock")

\* the case of C39: a task waits for the room lock with the registry lock in hand while
\* another task holds the room lock and a third one waits for the registry lock
C39_Witness ==
    \E t, u, w \in DOMAIN calls :
        /\ calls[t].method = "remove_participant" /\ clients_lock = t
        /\ NextOp(t) = "room.lock"
        /\ room_lock = u /\ calls[u].method = "add_participant"
        /\ NextOp(w) = "clients.lock"

====
